---- MODULE Spec2Model ----
(***************************************************************************)
(* Document chatbot: the document directory, the persisted Chroma          *)
(* collections, the global chatbot object of the API process, the          *)
(* background tasks started by uploads and the request handlers.           *)
(*                                                                         *)
(* Threads: ev is the asyncio event loop (the handlers are "async def"     *)
(* without awaits after the upload body is read, so handlers run one at a  *)
(* time); tasks are the thread-pool workers that run the background task   *)
(* init_chatbot of an upload, at most MaxTasks at a time.  Steps of one    *)
(* thread that touch no shared state are merged into the neighbouring      *)
(* step that does.                                                         *)
(***************************************************************************)
EXTENDS Integers, FiniteSets, Sequences, Bags, TLC

\* ---------------------------------------------------------------- bounds
MaxTasks == 2
MaxTime == 1
MaxTurns == 2
MaxBuilds == 3
MaxResets == 2

\* ------------------------------------------------------------- constants
Names == {"a.txt", "b.pdf"}
Contents == {"text", "blank", "%PDF"}
Absent == "absent"
NoName == "none"
Queries == {"q1"}
NoColl == -1
Times == 0..MaxTime

\* The (filename, bytes) pairs a client uploads.
UploadInputs ==
  { <<"a.txt", "text">>, <<"a.txt", "blank">>,
    <<"b.pdf", "%PDF">>, <<"b.pdf", "text">> }

\* ------------------------------------------------- loading and chunking
\* filename.endswith('.pdf')
EndsWithPdf(n) == n = "b.pdf"

\* f.read(4) of a file holding c
Header(c) ==
  IF c \in {"%PDF", "%PDF blank"} THEN "%PDF" ELSE IF c = "text" THEN "text" ELSE "    "

\* str.strip() leaves nothing
IsBlank(c) == c = "blank"

\* The text PDFMinerLoader extracts from a well-formed PDF holding c
PdfText(c) == IF c = "%PDF blank" THEN "blank" ELSE c

\* os.listdir(documents_dir)
listdir(dir) == {n \in DOMAIN dir : dir[n] # Absent}

\* The Documents one file contributes to load_documents: a .pdf whose header
\* is not %PDF is skipped, a .pdf page without text is dropped, every other
\* file goes through TextLoader whatever it holds.
LoadFile(n, c) ==
  IF EndsWithPdf(n)
    THEN IF Header(c) # "%PDF" THEN {}
         ELSE {d \in {[source |-> n, page_content |-> PdfText(c)]} :
                 ~IsBlank(d.page_content)}
    ELSE {[source |-> n, page_content |-> c]}

\* A load that stops after the first file of the listing.
load_first_file(dir) ==
  IF listdir(dir) = {}
    THEN {}
    ELSE LET n == CHOOSE f \in listdir(dir) : TRUE IN LoadFile(n, dir[n])

\* load_documents: every file of the listing is loaded.
load_documents(dir) == UNION {LoadFile(n, dir[n]) : n \in listdir(dir)}

\* RecursiveCharacterTextSplitter.split_text on a text below chunk_size
split_text(text) == {text}

\* A chunking that splits every document it is given, blank or not.
process_documents_unfiltered(docs) ==
  UNION {{[source |-> d.source, text |-> ch] : ch \in split_text(d.page_content)} :
           d \in docs}

\* Chunks carry no metadata in the code; source is kept here to tell which
\* file a chunk was derived from.
process_documents(docs) ==
  UNION {{[source |-> d.source, text |-> ch] : ch \in split_text(d.page_content)} :
           d \in {x \in docs : ~IsBlank(x.page_content)}}

\* The chunks a rebuild hands to create_vector_store for directory dir.
TextsOf(dir) == process_documents(load_documents(dir))

\* load_documents or process_documents raises ValueError
RebuildRaises(dir) == load_documents(dir) = {} \/ TextsOf(dir) = {}


\* ------------------------------------------------------------------ state
VARIABLES
  documents,   \* the "documents" directory: file name -> bytes, or Absent
  chroma_db,   \* the "chroma_db" directory: collection_<t> -> records
  now,         \* int(time.time())
  chatbot,     \* the object the module global "chatbot" refers to, or NoObj
  ev,          \* the event loop: the handler it runs and where it is
  tasks,       \* the running background tasks (a bag of task records)
  anyFailed,   \* history: some rebuild has raised
  okAdds,      \* history: the files on disk that an upload has written and
               \* whose processing by that upload's task has succeeded
  emptied,     \* history: a delete removed the last file and no upload's
               \* processing has succeeded since
  cli,         \* the command-line program (chatbot.py at the top of the
               \* repository): its directory, its store and its object
  users,       \* the rows of table "users" in sql_app.db, by username
  issued       \* the reset tokens printed so far, as <<username, token>>

hist == <<anyFailed, okAdds, emptied>>
auth_vars == <<users, issued>>
api_vars ==
  <<documents, chroma_db, now, chatbot, ev, tasks, anyFailed, okAdds, emptied, auth_vars>>
vars ==
  <<documents, chroma_db, now, chatbot, ev, tasks, anyFailed, okAdds, emptied, cli,
    users, issued>>

\* A DocumentChatbot object is its chain: the collection the retriever of the
\* chain reads and the turns in the chain's ConversationBufferMemory.
\* NoObj is the global being None.
NoObj == [retriever |-> NoColl, memory |-> <<>>]

\* A freshly built object: create_vector_store has written collection_<t>.
NewChatbot(t) == [retriever |-> t, memory |-> <<>>]

\* Chroma.from_documents(collection_name=collection_<t>): the collection is
\* got or created, and the records are added to it.
from_documents(db, t, texts) == [db EXCEPT ![t] = @ \cup texts]

\* attached: the object the thread runs setup_chain on ("self") is the object
\* the global refers to.  An object the global no longer refers to is
\* reachable only from the threads working on it, so its fields are not kept.
NewTask(n) == [pc |-> "ctor_load", file |-> n, attached |-> FALSE, texts |-> {}]

Idle ==
  [op |-> "idle", pc |-> "idle", attached |-> FALSE, texts |-> {},
   status |-> 0, query |-> "none", target |-> NoName, removed |-> NoName,
   before |-> NoObj, inflight |-> FALSE, context |-> {}, unbound |-> FALSE]

\* The response of the event loop to the request r it has handled.
Respond(r, st) ==
  [r EXCEPT !.pc = "respond", !.status = st, !.attached = FALSE, !.texts = {}]

\* The records the active chain retrieves from.
ActiveIndex == IF chatbot = NoObj THEN {} ELSE chroma_db[chatbot.retriever]

RebuildPcs == {"ctor_build", "reload", "build"}

\* The tasks that have read the directory and have not finished.
Rebuilding == {r \in BagToSet(tasks) : r.pc \in RebuildPcs}

\* A rebuild has read the directory and has not finished.
RebuildInFlight == ev.pc \in RebuildPcs \/ Rebuilding # {}

\* Task r becomes r2.
Step(r, r2) == (tasks (-) SetToBag({r})) (+) SetToBag({r2})

\* Task r ends.
Drop(r) == tasks (-) SetToBag({r})

UnAttach(r) == [r EXCEPT !.attached = FALSE]

\* The global is bound to another object (or None): no thread's self is the
\* global any more.
Detach(b) == BagOfAll(UnAttach, b)

\* Table "users" without a row.
NoUsers == <<>>

\* The command-line program is not running.
CliOff ==
  [documents |-> [n \in Names |-> Absent], db |-> {}, vectorstore |-> 0,
   chain |-> [retriever |-> 0, memory |-> <<>>], running |-> FALSE]

\* The post-startup state: the module calls initialize_chatbot() on import,
\* which raises (and the process does not start) unless the directory holds
\* at least one file with text; both builds of the startup ran at second 0.
Init ==
  /\ documents \in {d \in [Names -> Contents \cup {Absent}] :
                      /\ \A n \in listdir(d) : <<n, d[n]>> \in UploadInputs
                      /\ ~RebuildRaises(d)}
  /\ now = 0
  /\ chroma_db = [t \in Times |-> IF t = 0 THEN TextsOf(documents) ELSE {}]
  /\ chatbot = NewChatbot(0)
  /\ ev = Idle
  /\ tasks = EmptyBag
  /\ anyFailed = FALSE
  /\ okAdds = {}
  /\ emptied = FALSE
  /\ cli = CliOff
  /\ users = NoUsers
  /\ issued = <<>>

\* ------------------------------------------- background task init_chatbot
\* An exception leaves the rebuild of task r: init_chatbot removes the file
\* it was started for and re-raises.
init_chatbot_except(r) ==
  /\ documents' = [documents EXCEPT ![r.file] = Absent]
  /\ tasks' = Drop(r)
  /\ anyFailed' = TRUE
  /\ okAdds' = okAdds \ {r.file}
  /\ UNCHANGED <<chroma_db, now, cli, auth_vars, chatbot, ev, emptied>>

\* DocumentChatbot(): __init__ calls setup_chain, which starts with
\* load_documents and process_documents.
init_chatbot_load(r) ==
  /\ r.pc = "ctor_load"
  /\ IF RebuildRaises(documents)
       THEN init_chatbot_except(r)
       ELSE /\ tasks' = Step(r, [r EXCEPT !.pc = "ctor_build",
                                          !.texts = TextsOf(documents)])
            /\ UNCHANGED <<documents, chroma_db, now, cli, auth_vars, chatbot, ev, hist>>

\* The rest of "chatbot = DocumentChatbot()": create_vector_store adds the
\* records to the collection named after the current second, the chain of the
\* new object is built over it with an empty memory, and the object becomes
\* the global; or the embedding call raises.
init_chatbot_assign(r) ==
  /\ r.pc = "ctor_build"
  /\ \/ /\ chroma_db' = from_documents(chroma_db, now, r.texts)
        /\ chatbot' = NewChatbot(now)
        /\ tasks' = Detach(Step(r, [r EXCEPT !.pc = "reload", !.texts = {}]))
        /\ ev' = UnAttach(ev)
        /\ UNCHANGED <<documents, now, cli, auth_vars, hist>>
     \/ init_chatbot_except(r)

\* chatbot.setup_chain(): the global is read again (None has no setup_chain),
\* then load_documents and process_documents run on what the directory holds
\* now.
init_chatbot_reload(r) ==
  /\ r.pc = "reload"
  /\ IF chatbot = NoObj \/ RebuildRaises(documents)
       THEN init_chatbot_except(r)
       ELSE /\ tasks' = Step(r, [r EXCEPT !.pc = "build", !.attached = TRUE,
                                          !.texts = TextsOf(documents)])
            /\ UNCHANGED <<documents, chroma_db, now, cli, auth_vars, chatbot, ev, hist>>

\* The rest of setup_chain on self: self.vectorstore = create_vector_store(
\* texts), then self.memory and self.chain are replaced; or the embedding call
\* raises.
init_chatbot_setup(r) ==
  /\ r.pc = "build"
  /\ \/ /\ chroma_db' = from_documents(chroma_db, now, r.texts)
        /\ chatbot' = IF r.attached THEN NewChatbot(now) ELSE chatbot
        /\ tasks' = Drop(r)
        /\ okAdds' = IF documents[r.file] # Absent THEN okAdds \cup {r.file} ELSE okAdds
        /\ emptied' = FALSE
        /\ UNCHANGED <<documents, now, cli, auth_vars, ev, anyFailed>>
     \/ init_chatbot_except(r)

\* ------------------------------------ initialize_chatbot on the event loop
\* An exception leaves initialize_chatbot as an HTTPException, which every
\* handler answers with status 500.
initialize_chatbot_except ==
  /\ ev' = Respond(ev, 500)
  /\ anyFailed' = TRUE
  /\ UNCHANGED <<documents, chroma_db, now, cli, auth_vars, chatbot, tasks, okAdds, emptied>>

\* initialize_chatbot returns None.  chat assigns the result to the global
\* and answers 400; delete_document and health_check ignore it.
initialize_chatbot_none ==
  IF ev.op = "chat"
    THEN /\ chatbot' = NoObj
         /\ ev' = Respond(ev, 400)
         /\ tasks' = Detach(tasks)
         /\ UNCHANGED <<documents, chroma_db, now, cli, auth_vars, hist>>
    ELSE /\ ev' = Respond(ev, 200)
         /\ UNCHANGED <<documents, chroma_db, now, cli, auth_vars, chatbot, tasks, hist>>

\* "if chatbot is None: chatbot = DocumentChatbot()": the constructor's
\* load_documents and process_documents; with the global set the function
\* falls off its end.
initialize_chatbot_load ==
  /\ ev.pc = "ctor_load"
  /\ IF chatbot # NoObj
       THEN initialize_chatbot_none
       ELSE IF RebuildRaises(documents)
         THEN initialize_chatbot_except
         ELSE /\ ev' = [ev EXCEPT !.pc = "ctor_build", !.texts = TextsOf(documents)]
              /\ UNCHANGED <<documents, chroma_db, now, cli, auth_vars, chatbot, tasks, hist>>

\* The rest of "chatbot = DocumentChatbot()" (see init_chatbot_assign).
initialize_chatbot_assign ==
  /\ ev.pc = "ctor_build"
  /\ \/ /\ chroma_db' = from_documents(chroma_db, now, ev.texts)
        /\ chatbot' = NewChatbot(now)
        /\ tasks' = Detach(tasks)
        /\ ev' = [ev EXCEPT !.pc = "reload", !.texts = {}]
        /\ UNCHANGED <<documents, now, cli, auth_vars, hist>>
     \/ initialize_chatbot_except

\* "documents = os.listdir(...); if not documents: return None", then
\* chatbot.setup_chain() up to process_documents.
initialize_chatbot_reload ==
  /\ ev.pc = "reload"
  /\ IF listdir(documents) = {}
       THEN initialize_chatbot_none
       ELSE IF chatbot = NoObj \/ RebuildRaises(documents)
         THEN initialize_chatbot_except
         ELSE /\ ev' = [ev EXCEPT !.pc = "build", !.attached = TRUE,
                                  !.texts = TextsOf(documents)]
              /\ UNCHANGED <<documents, chroma_db, now, cli, auth_vars, chatbot, tasks, hist>>

\* The rest of setup_chain and "return chatbot": delete_document and
\* health_check respond, chat assigns the result and goes on to the call.
initialize_chatbot_setup ==
  /\ ev.pc = "build"
  /\ \/ /\ chroma_db' = from_documents(chroma_db, now, ev.texts)
        /\ chatbot' = IF ev.attached THEN NewChatbot(now) ELSE chatbot
        /\ ev' = IF ev.op = "chat"
                   THEN [ev EXCEPT !.pc = "answer", !.texts = {}, !.attached = FALSE,
                                   !.unbound = FALSE]
                   ELSE Respond(ev, 200)
        /\ UNCHANGED <<documents, now, cli, auth_vars, tasks, hist>>
     \/ initialize_chatbot_except

\* ---------------------------------------------------------------- handlers
\* POST /upload: the body is written to documents/<filename> and init_chatbot
\* is queued as a background task, which a pool thread runs.
upload_file(n, c) ==
  /\ ev.pc = "idle"
  /\ BagCardinality(tasks) < MaxTasks
  /\ documents' = [documents EXCEPT ![n] = c]
  /\ tasks' = tasks (+) SetToBag({NewTask(n)})
  /\ UNCHANGED <<chroma_db, now, cli, auth_vars, chatbot, ev, hist>>

\* A call that records the question although the chain raised.
Answer_recording(r) ==
  \/ /\ Len(chatbot.memory) < MaxTurns
     /\ ev' = [Respond(r, 200) EXCEPT !.context = chroma_db[chatbot.retriever],
                                      !.inflight = RebuildInFlight]
     /\ chatbot' = [chatbot EXCEPT !.memory = Append(@, r.query)]
  \/ /\ Len(chatbot.memory) < MaxTurns
     /\ ev' = Respond(r, 500)
     /\ chatbot' = [chatbot EXCEPT !.memory = Append(@, r.query)]

\* A call that puts the new turn in front of the earlier ones.
Answer_prepending(r) ==
  \/ /\ Len(chatbot.memory) < MaxTurns
     /\ ev' = [Respond(r, 200) EXCEPT !.context = chroma_db[chatbot.retriever],
                                      !.inflight = RebuildInFlight]
     /\ chatbot' = [chatbot EXCEPT !.memory = <<r.query>> \o @]
  \/ /\ ev' = Respond(r, 500)
     /\ UNCHANGED chatbot

\* DocumentChatbot.chat on the global object for request r: the chain
\* retrieves from the collection of its retriever and, when the call
\* succeeds, saves the turn in its memory; the embedding or model call may
\* raise, which the handler answers with 500.
Answer(r) ==
  \/ /\ Len(chatbot.memory) < MaxTurns
     /\ ev' = [Respond(r, 200) EXCEPT !.context = chroma_db[chatbot.retriever],
                                      !.inflight = RebuildInFlight]
     /\ chatbot' = [chatbot EXCEPT !.memory = Append(@, r.query)]
  \/ /\ ev' = Respond(r, 500)
     /\ UNCHANGED chatbot

\* POST /chat
chat(q) ==
  /\ ev.pc = "idle"
  /\ LET r == [Idle EXCEPT !.op = "chat", !.query = q, !.unbound = chatbot = NoObj]
     IN IF listdir(documents) = {}
          THEN ev' = Respond(r, 400) /\ UNCHANGED chatbot
          ELSE IF chatbot = NoObj
            THEN ev' = [r EXCEPT !.pc = "ctor_load"] /\ UNCHANGED chatbot
            ELSE Answer(r)
  /\ UNCHANGED <<documents, chroma_db, now, cli, auth_vars, tasks, hist>>

\* chat after "chatbot = initialize_chatbot()" returned the global.
chat_after_init ==
  /\ ev.pc = "answer"
  /\ Answer(ev)
  /\ UNCHANGED <<documents, chroma_db, now, cli, auth_vars, tasks, hist>>

\* DELETE /documents/{document_id}: the first file os.listdir yields is
\* removed (the order is the file system's), the global is reset, and
\* initialize_chatbot is called when files remain.  With nothing to remove the
\* 404 is raised inside the try block, whose "except Exception" answers 500.
delete_document(id) ==
  /\ ev.pc = "idle"
  /\ LET r == [Idle EXCEPT !.op = "delete", !.target = id, !.before = chatbot]
     IN IF listdir(documents) = {}
          THEN /\ ev' = Respond(r, 500)
               /\ UNCHANGED <<documents, chatbot, tasks, okAdds, emptied>>
          ELSE \E f \in listdir(documents) :
                 /\ documents' = [documents EXCEPT ![f] = Absent]
                 /\ chatbot' = NoObj
                 /\ tasks' = Detach(tasks)
                 /\ ev' = IF listdir(documents') # {}
                            THEN [r EXCEPT !.removed = f, !.pc = "ctor_load"]
                            ELSE Respond([r EXCEPT !.removed = f], 200)
                 /\ okAdds' = okAdds \ {f}
                 /\ emptied' = IF listdir(documents') = {} THEN TRUE ELSE emptied
  /\ UNCHANGED <<chroma_db, now, cli, auth_vars, anyFailed>>

\* GET /health
health_check ==
  /\ ev.pc = "idle"
  /\ ev' = IF chatbot = NoObj /\ listdir(documents) # {}
             THEN [Idle EXCEPT !.op = "health", !.pc = "ctor_load"]
             ELSE Respond([Idle EXCEPT !.op = "health"], 200)
  /\ UNCHANGED <<documents, chroma_db, now, cli, auth_vars, chatbot, tasks, hist>>

\* The response is sent; the event loop takes the next request.
Return ==
  /\ ev.pc = "respond"
  /\ ev' = Idle
  /\ UNCHANGED <<documents, chroma_db, now, cli, auth_vars, chatbot, tasks, hist>>

\* A second passes.
Tick ==
  /\ now < MaxTime
  /\ now' = now + 1
  /\ UNCHANGED <<documents, chroma_db, chatbot, ev, tasks, hist, cli, auth_vars>>

Next ==
  \/ \E u \in UploadInputs : upload_file(u[1], u[2])
  \/ \E q \in Queries : chat(q)
  \/ chat_after_init
  \/ \E id \in Names : delete_document(id)
  \/ health_check
  \/ Return
  \/ Tick
  \/ \E r \in BagToSet(tasks) : init_chatbot_load(r)
  \/ \E r \in BagToSet(tasks) : init_chatbot_assign(r)
  \/ \E r \in BagToSet(tasks) : init_chatbot_reload(r)
  \/ \E r \in BagToSet(tasks) : init_chatbot_setup(r)
  \/ initialize_chatbot_load
  \/ initialize_chatbot_assign
  \/ initialize_chatbot_reload
  \/ initialize_chatbot_setup

Spec == Init /\ [][Next]_vars

\* ------------------------------------- the API process without uploads
\* The questions of the chat requests.
ChatQueries == {"q1", "q2"}

\* The requests of a client that asks, deletes and polls /health while no
\* upload is being processed: every step runs on the event loop.
NextChat ==
  \/ \E q \in ChatQueries : chat(q)
  \/ chat_after_init
  \/ \E id \in Names : delete_document(id)
  \/ health_check
  \/ Return
  \/ initialize_chatbot_load
  \/ initialize_chatbot_assign
  \/ initialize_chatbot_reload
  \/ initialize_chatbot_setup

SpecChat == Init /\ [][NextChat]_vars

\* ------------------------------------------- one ingestion batch, by file
\* The files of the directory in the batches below; c.md has an extension no
\* loader is registered for.
LoadNames == {"a.txt", "b.pdf", "c.md"}

\* os.path.splitext(filename)[1].lower()
Extension(n) == IF n = "a.txt" THEN ".txt" ELSE IF n = "b.pdf" THEN ".pdf" ELSE ".md"

\* The keys of DocumentLoader.load_document's loaders dictionary.
Loaders == {".pdf", ".txt", ".docx", ".csv"}

\* DocumentLoader.load_document on a file holding c: an unregistered type
\* raises ValueError; otherwise the loader of the type is run on the file,
\* and PyPDFLoader raises on bytes that are no PDF.  DocumentManager skips the
\* file when the call raises.
load_document(n, c) ==
  IF Extension(n) \notin Loaders THEN {}
  ELSE IF Extension(n) = ".pdf" /\ Header(c) # "%PDF" THEN {}
  ELSE {[source |-> n, page_content |-> c]}

\* The (file, bytes) on which a PDF extraction routine is invoked when the
\* file is loaded: PDFMinerLoader in DocumentChatbot.load_documents, after the
\* header check; PyPDFLoader in DocumentLoader.load_document, for every file
\* of type .pdf.
Extracts(impl, n, c) ==
  IF impl = "chatbot"
    THEN IF EndsWithPdf(n) /\ Header(c) = "%PDF" THEN {<<n, c>>} ELSE {}
    ELSE IF Extension(n) = ".pdf" THEN {<<n, c>>} ELSE {}

\* A thread about to run load_documents: DocumentChatbot.load_documents
\* (impl "chatbot") or DocumentManager.load_documents (impl "manager").
NewLoad(impl) ==
  [impl |-> impl, pc |-> "start", listing |-> {}, docs |-> {}, extracted |-> {}]

InitLoad ==
  /\ documents \in [LoadNames -> Contents \cup {Absent}]
  /\ tasks \in {SetToBag({NewLoad(i)}) : i \in {"chatbot", "manager"}}
  /\ chroma_db = [t \in Times |-> {}]
  /\ now = 0
  /\ chatbot = NoObj
  /\ ev = Idle
  /\ anyFailed = FALSE
  /\ okAdds = {}
  /\ emptied = FALSE
  /\ cli = CliOff
  /\ users = NoUsers
  /\ issued = <<>>

\* "for filename in os.listdir(self.documents_dir)": the listing is taken
\* once.
load_listdir(r) ==
  /\ r.pc = "start"
  /\ tasks' = Step(r, [r EXCEPT !.pc = "files", !.listing = listdir(documents)])
  /\ UNCHANGED <<documents, chroma_db, now, chatbot, ev, hist, cli, auth_vars>>

\* One iteration of the loop, for a file n of the listing (in the order of
\* the file system).  DocumentChatbot.load_documents calls os.path.getsize
\* before its try block, so a file that is gone by now raises
\* FileNotFoundError out of the loop; DocumentManager.load_documents opens the
\* file inside its try block and skips it.
load_file(r, n) ==
  /\ r.pc = "files"
  /\ n \in r.listing
  /\ tasks' = Step(r,
       IF documents[n] = Absent
         THEN IF r.impl = "chatbot"
                THEN [r EXCEPT !.pc = "raised"]
                ELSE [r EXCEPT !.listing = @ \ {n}]
         ELSE [r EXCEPT !.listing = @ \ {n},
                        !.docs = @ \cup (IF r.impl = "chatbot"
                                           THEN LoadFile(n, documents[n])
                                           ELSE load_document(n, documents[n])),
                        !.extracted = @ \cup Extracts(r.impl, n, documents[n])])
  /\ UNCHANGED <<documents, chroma_db, now, chatbot, ev, hist, cli, auth_vars>>

\* After the loop: DocumentChatbot.load_documents raises ValueError when
\* nothing was loaded, DocumentManager.load_documents returns what it has.
load_return(r) ==
  /\ r.pc = "files"
  /\ r.listing = {}
  /\ tasks' = Step(r, [r EXCEPT !.pc = IF r.impl = "chatbot" /\ r.docs = {}
                                         THEN "raised" ELSE "done"])
  /\ UNCHANGED <<documents, chroma_db, now, chatbot, ev, hist, cli, auth_vars>>

\* Another thread removes a file while the batch runs: os.remove in
\* delete_document or in the cleanup of a failed init_chatbot.
remove_file(n) ==
  /\ documents[n] # Absent
  /\ \E r \in BagToSet(tasks) : r.pc = "files"
  /\ documents' = [documents EXCEPT ![n] = Absent]
  /\ UNCHANGED <<chroma_db, now, chatbot, ev, tasks, hist, cli, auth_vars>>

NextLoad ==
  \/ \E r \in BagToSet(tasks) : load_listdir(r)
  \/ \E r \in BagToSet(tasks) : \E n \in LoadNames : load_file(r, n)
  \/ \E r \in BagToSet(tasks) : load_return(r)
  \/ \E n \in LoadNames : remove_file(n)

SpecLoad == InitLoad /\ [][NextLoad]_vars

\* ------------------------------- rebuilds of an unchanged document set
\* Chroma.add_texts, which Chroma.from_documents ends in: every text becomes
\* a record with a new uuid in the collection, next to the records the
\* collection holds.  The collection is the bag of its records' texts.
add_texts(db, t, texts) == [db EXCEPT ![t] = @ (+) SetToBag(texts)]

\* A thread about to rebuild: setup_chain starts.
NewRebuild == [pc |-> "load", texts |-> {}, builds |-> 0]

\* The process is about to call initialize_chatbot() for the first time:
\* chroma_db is empty and the directory holds the documents it will hold
\* throughout.
InitIndex ==
  /\ documents \in {d \in [Names -> Contents \cup {Absent}] :
                      /\ \A n \in listdir(d) : <<n, d[n]>> \in UploadInputs
                      /\ ~RebuildRaises(d)}
  /\ chroma_db = [t \in Times |-> EmptyBag]
  /\ now = 0
  /\ chatbot = NoObj
  /\ ev = Idle
  /\ tasks = SetToBag({NewRebuild})
  /\ anyFailed = FALSE
  /\ okAdds = {}
  /\ emptied = FALSE
  /\ cli = CliOff
  /\ users = NoUsers
  /\ issued = <<>>

\* setup_chain: load_documents and process_documents.
rebuild_load(r) ==
  /\ r.pc = "load"
  /\ tasks' = Step(r, [r EXCEPT !.pc = "build", !.texts = TextsOf(documents)])
  /\ UNCHANGED <<documents, chroma_db, now, chatbot, ev, hist, cli, auth_vars>>

\* setup_chain: create_vector_store adds the chunks to collection_<now> and
\* the chain is built over that collection.  The next rebuild follows:
\* "chatbot = DocumentChatbot(); chatbot.setup_chain()" rebuilds twice, and so
\* does every later upload or delete.
rebuild_build(r) ==
  /\ r.pc = "build"
  /\ chroma_db' = add_texts(chroma_db, now, r.texts)
  /\ chatbot' = NewChatbot(now)
  /\ tasks' = Step(r, [r EXCEPT !.pc = IF r.builds + 1 < MaxBuilds THEN "load" ELSE "done",
                                !.texts = {}, !.builds = @ + 1])
  /\ UNCHANGED <<documents, now, ev, hist, cli, auth_vars>>

NextIndex ==
  \/ \E r \in BagToSet(tasks) : rebuild_load(r)
  \/ \E r \in BagToSet(tasks) : rebuild_build(r)
  \/ Tick

SpecIndex == InitIndex /\ [][NextIndex]_vars

\* --------------------------------- one rebuild, from files to records
\* The bytes of the files in the rebuilds below: next to Contents, a
\* well-formed PDF whose pages hold no text.
ChunkContents == Contents \cup {"%PDF blank"}

\* A thread about to run setup_chain.
NewIngest == [pc |-> "load", docs |-> {}, texts |-> {}]

InitIngest ==
  /\ documents \in [LoadNames -> ChunkContents \cup {Absent}]
  /\ tasks = SetToBag({NewIngest})
  /\ chroma_db = [t \in Times |-> {}]
  /\ now = 0
  /\ chatbot = NoObj
  /\ ev = Idle
  /\ anyFailed = FALSE
  /\ okAdds = {}
  /\ emptied = FALSE
  /\ cli = CliOff
  /\ users = NoUsers
  /\ issued = <<>>

\* setup_chain: documents = self.load_documents(), which raises ValueError
\* when nothing was loaded.
ingest_load(r) ==
  /\ r.pc = "load"
  /\ tasks' = Step(r, IF load_documents(documents) = {}
                        THEN [r EXCEPT !.pc = "raised"]
                        ELSE [r EXCEPT !.pc = "process",
                                       !.docs = load_documents(documents)])
  /\ UNCHANGED <<documents, chroma_db, now, chatbot, ev, hist, cli, auth_vars>>

\* setup_chain: texts = self.process_documents(documents), which raises
\* ValueError when no chunk was made.
ingest_process(r) ==
  /\ r.pc = "process"
  /\ tasks' = Step(r, IF process_documents(r.docs) = {}
                        THEN [r EXCEPT !.pc = "raised", !.docs = {}]
                        ELSE [r EXCEPT !.pc = "build", !.docs = {},
                                       !.texts = process_documents(r.docs)])
  /\ UNCHANGED <<documents, chroma_db, now, chatbot, ev, hist, cli, auth_vars>>

\* setup_chain: self.vectorstore = self.create_vector_store(texts) and the
\* chain over it.
ingest_build(r) ==
  /\ r.pc = "build"
  /\ chroma_db' = from_documents(chroma_db, now, r.texts)
  /\ chatbot' = NewChatbot(now)
  /\ tasks' = Step(r, [r EXCEPT !.pc = "done"])
  /\ UNCHANGED <<documents, now, ev, hist, cli, auth_vars>>

NextIngest ==
  \/ \E r \in BagToSet(tasks) : ingest_load(r)
  \/ \E r \in BagToSet(tasks) : ingest_process(r)
  \/ \E r \in BagToSet(tasks) : ingest_build(r)
  \/ Tick

SpecIngest == InitIngest /\ [][NextIngest]_vars

\* ------------------------------------------- the size check of an upload
\* chunk_size = 1024 * 1024
chunk_size == 1024 * 1024

\* 50 * 1024 * 1024, the largest body upload_file accepts
MaxUploadBytes == 50 * 1024 * 1024

\* The lengths of the uploaded bodies.
UploadSizes ==
  {0, 1, chunk_size, MaxUploadBytes - 1, MaxUploadBytes, MaxUploadBytes + 1,
   MaxUploadBytes + chunk_size}

\* upload_file has been entered for a body of size bytes holding c, sent as
\* file n: file_size = 0 and nothing has been read.
NewUpload(n, c, size) ==
  [op |-> "upload", pc |-> "read", file |-> n, content |-> c, size |-> size,
   file_size |-> 0, status |-> 0]

\* POST /upload arrives.
upload_begin(n, c, size) ==
  /\ ev.pc = "idle"
  /\ BagCardinality(tasks) < MaxTasks
  /\ ev' = NewUpload(n, c, size)
  /\ UNCHANGED <<documents, chroma_db, now, chatbot, tasks, hist, cli, auth_vars>>

\* len(chunk) of "chunk = await file.read(chunk_size)" for request r
ChunkLen(r) ==
  IF r.size - r.file_size < chunk_size THEN r.size - r.file_size ELSE chunk_size

\* A loop that refuses a body as soon as it has read the limit.
upload_read_strict ==
  /\ ev.op = "upload" /\ ev.pc = "read"
  /\ IF ChunkLen(ev) = 0
       THEN /\ documents' = [documents EXCEPT ![ev.file] = ev.content]
            /\ tasks' = tasks (+) SetToBag({NewTask(ev.file)})
            /\ ev' = [ev EXCEPT !.pc = "respond", !.status = 200]
       ELSE /\ ev' = IF ev.file_size + ChunkLen(ev) >= MaxUploadBytes
                       THEN [ev EXCEPT !.file_size = @ + ChunkLen(ev),
                                       !.pc = "respond", !.status = 413]
                       ELSE [ev EXCEPT !.file_size = @ + ChunkLen(ev)]
            /\ UNCHANGED <<documents, tasks>>
  /\ UNCHANGED <<chroma_db, now, chatbot, hist, cli, auth_vars>>

\* One iteration of "while True": the next chunk is read; an empty chunk ends
\* the loop, after which the body is written to documents/<filename>,
\* init_chatbot is queued and the handler answers 200; otherwise file_size
\* grows by the chunk, and past the limit the handler raises 413, which its
\* "except HTTPException" re-raises.
upload_read ==
  /\ ev.op = "upload" /\ ev.pc = "read"
  /\ IF ChunkLen(ev) = 0
       THEN /\ documents' = [documents EXCEPT ![ev.file] = ev.content]
            /\ tasks' = tasks (+) SetToBag({NewTask(ev.file)})
            /\ ev' = [ev EXCEPT !.pc = "respond", !.status = 200]
       ELSE /\ ev' = IF ev.file_size + ChunkLen(ev) > MaxUploadBytes
                       THEN [ev EXCEPT !.file_size = @ + ChunkLen(ev),
                                       !.pc = "respond", !.status = 413]
                       ELSE [ev EXCEPT !.file_size = @ + ChunkLen(ev)]
            /\ UNCHANGED <<documents, tasks>>
  /\ UNCHANGED <<chroma_db, now, chatbot, hist, cli, auth_vars>>

\* Uploads, one after the other, while the pool has not started the tasks
\* they queue.
NextUpload ==
  \/ \E u \in UploadInputs : \E size \in UploadSizes : upload_begin(u[1], u[2], size)
  \/ upload_read
  \/ Return

SpecUpload == Init /\ [][NextUpload]_vars

\* ------------------------------------------------------ accounts: login
MAX_LOGIN_ATTEMPTS == 5
LOGIN_COOLDOWN_MINUTES == 15
REFRESH_TOKEN_EXPIRE_DAYS == 7
PASSWORD_RESET_TOKEN_EXPIRE_MINUTES == 15

\* timedelta(minutes=m) and timedelta(days=d), in seconds
minutes(m) == m * 60
days(d) == d * 86400

\* None in a Float column, in a String column holding a token, and in
\* reset_token
NoTime == -1
NoToken == [sub |-> "none", refresh |-> FALSE, exp |-> NoTime]
NoReset == 0

\* bool(x) of a Float column: None and 0.0 are false
Truthy(x) == x # NoTime /\ x # 0

\* pwd_context.hash and pwd_context.verify
get_password_hash(password) == <<"bcrypt", password>>
verify_password(plain_password, hashed_password) ==
  hashed_password = get_password_hash(plain_password)

\* The registered accounts and the password each was registered with.
Usernames == {"alice", "bob"}
Password(u) == IF u = "alice" THEN "Alice-pw1" ELSE "Bob-pw22"
Email(u) == IF u = "alice" THEN "alice@x.org" ELSE "bob@x.org"

\* The row register_user adds for u.
DBUser(u) ==
  [username |-> u, email |-> Email(u),
   hashed_password |-> get_password_hash(Password(u)),
   failed_login_attempts |-> 0, last_failed_login |-> NoTime,
   refresh_token |-> NoToken, reset_token |-> NoReset,
   reset_token_expires |-> NoTime]

\* An authenticate_user without the lockout check.
authenticate_user_unlocked(user, password, t) ==
  IF ~verify_password(password, user.hashed_password)
    THEN [result |-> "incorrect",
          user |-> [user EXCEPT !.failed_login_attempts = @ + 1,
                                !.last_failed_login = t]]
    ELSE [result |-> "ok",
          user |-> [user EXCEPT !.failed_login_attempts = 0,
                                !.last_failed_login = NoTime]]

\* authenticate_user on the row "user" at second t: what it raises or
\* returns, and the row it has committed.
authenticate_user(user, password, t) ==
  LET locked == /\ user.failed_login_attempts >= MAX_LOGIN_ATTEMPTS
                /\ Truthy(user.last_failed_login)
                /\ t < user.last_failed_login + minutes(LOGIN_COOLDOWN_MINUTES)
      cooled == /\ user.failed_login_attempts >= MAX_LOGIN_ATTEMPTS
                /\ Truthy(user.last_failed_login)
                /\ ~locked
      row == IF cooled THEN [user EXCEPT !.failed_login_attempts = 0] ELSE user
  IN IF locked
       THEN [result |-> "locked", user |-> user]
       ELSE IF ~verify_password(password, row.hashed_password)
         THEN [result |-> "incorrect",
               user |-> [row EXCEPT !.failed_login_attempts = @ + 1,
                                    !.last_failed_login = t]]
         ELSE [result |-> "ok",
               user |-> [row EXCEPT !.failed_login_attempts = 0,
                                    !.last_failed_login = NoTime]]

\* create_token at second t: jwt.encode writes exp as whole seconds, and the
\* HS256 signature is a function of the claims.
create_token(sub, refresh, expires_delta, t) ==
  [sub |-> sub, refresh |-> refresh, exp |-> t + expires_delta]

\* The response to an accounts request: given is the credential the request
\* carried, token the refresh token the response carries.
Reply(op, u, given, st, detail, token) ==
  [op |-> op, pc |-> "respond", username |-> u, given |-> given, status |-> st,
   detail |-> detail, token |-> token]

\* The variables of the document pipeline, which the accounts handlers leave
\* alone.
doc_vars ==
  <<documents, chroma_db, chatbot, tasks, anyFailed, okAdds, emptied, cli>>

\* POST /token for username u and password p.
login_for_access_token(u, p) ==
  /\ ev.pc = "idle"
  /\ IF u \notin DOMAIN users
       THEN /\ ev' = Reply("login", u, p, 401, "Incorrect username or password", NoToken)
            /\ UNCHANGED users
       ELSE LET a == authenticate_user(users[u], p, now)
                refresh_token ==
                  create_token(u, TRUE, days(REFRESH_TOKEN_EXPIRE_DAYS), now)
            IN IF a.result = "locked"
                 THEN /\ ev' = Reply("login", u, p, 403, "Account locked", NoToken)
                      /\ UNCHANGED users
                 ELSE IF a.result = "incorrect"
                   THEN /\ ev' = Reply("login", u, p, 401, "Incorrect password", NoToken)
                        /\ users' = [users EXCEPT ![u] = a.user]
                   ELSE /\ ev' = Reply("login", u, p, 200, "bearer", refresh_token)
                        /\ users' = [users EXCEPT
                                       ![u] = [a.user EXCEPT !.refresh_token = refresh_token]]
  /\ UNCHANGED <<doc_vars, now, issued>>

\* Time passes until the next request arrives, at one of the instants T.
Sleep(T) ==
  /\ \E t \in T : t > now /\ now' = t
  /\ UNCHANGED <<doc_vars, ev, users, issued>>

\* The instants at which login requests arrive: two consecutive seconds, and
\* the seconds around the end of the cooldown that starts at either.
LoginInstants ==
  {1, 2, minutes(LOGIN_COOLDOWN_MINUTES), 1 + minutes(LOGIN_COOLDOWN_MINUTES),
   2 + minutes(LOGIN_COOLDOWN_MINUTES)}

\* The usernames and passwords of the login requests.
LoginNames == {"alice", "nobody"}
LoginPasswords == {Password("alice"), "wrong"}

\* One account is registered and nobody has logged in.
InitLogin ==
  /\ users = [u \in {"alice"} |-> DBUser(u)]
  /\ issued = <<>>
  /\ now = 1
  /\ ev = Idle
  /\ documents = [n \in Names |-> Absent]
  /\ chroma_db = [t \in Times |-> {}]
  /\ chatbot = NoObj
  /\ tasks = EmptyBag
  /\ anyFailed = FALSE
  /\ okAdds = {}
  /\ emptied = FALSE
  /\ cli = CliOff

NextLogin ==
  \/ \E u \in LoginNames : \E p \in LoginPasswords : login_for_access_token(u, p)
  \/ Return
  \/ Sleep(LoginInstants)

SpecLogin == InitLogin /\ [][NextLogin]_vars

\* --------------------------------------------- accounts: refresh tokens
ACCESS_TOKEN_EXPIRE_MINUTES == 30

\* The instants at which login and refresh requests arrive: two consecutive
\* seconds, and the last second of validity of a refresh token issued at
\* either.
RefreshInstants ==
  {1, 2, 1 + days(REFRESH_TOKEN_EXPIRE_DAYS), 2 + days(REFRESH_TOKEN_EXPIRE_DAYS)}

\* The tokens a client can present to /refresh-token: the access and refresh
\* tokens the server signs for a subject at an instant up to now.
RefreshInputs ==
  {create_token(u, TRUE, days(REFRESH_TOKEN_EXPIRE_DAYS), t) :
     u \in Usernames \cup {"nobody"}, t \in {i \in RefreshInstants : i <= now}}
  \cup
  {create_token(u, FALSE, minutes(ACCESS_TOKEN_EXPIRE_MINUTES), t) :
     u \in Usernames, t \in {i \in RefreshInstants : i <= now}}

\* jwt.decode of a token the server signed: ExpiredSignatureError (a
\* JWTError) once the current second is past exp.
decodes(token, t) == t <= token.exp

\* POST /refresh-token
refresh_access_token(token) ==
  /\ ev.pc = "idle"
  /\ LET username == token.sub
         new_refresh_token ==
           create_token(username, TRUE, days(REFRESH_TOKEN_EXPIRE_DAYS), now)
     IN IF \/ ~decodes(token, now)
           \/ username \notin DOMAIN users
           \/ users[username].refresh_token # token
          THEN /\ ev' = Reply("refresh", username, token, 401,
                              "Invalid refresh token", NoToken)
               /\ UNCHANGED users
          ELSE /\ ev' = Reply("refresh", username, token, 200, "bearer",
                              new_refresh_token)
               /\ users' = [users EXCEPT ![username].refresh_token = new_refresh_token]
  /\ UNCHANGED <<doc_vars, now, issued>>

\* Two accounts are registered and nobody has logged in.
InitRefresh ==
  /\ users = [u \in Usernames |-> DBUser(u)]
  /\ issued = <<>>
  /\ now = 1
  /\ ev = Idle
  /\ documents = [n \in Names |-> Absent]
  /\ chroma_db = [t \in Times |-> {}]
  /\ chatbot = NoObj
  /\ tasks = EmptyBag
  /\ anyFailed = FALSE
  /\ okAdds = {}
  /\ emptied = FALSE
  /\ cli = CliOff

NextRefresh ==
  \/ \E u \in Usernames : login_for_access_token(u, Password(u))
  \/ \E token \in RefreshInputs : refresh_access_token(token)
  \/ Return
  \/ Sleep(RefreshInstants)

SpecRefresh == InitRefresh /\ [][NextRefresh]_vars

\* --------------------------------------------- accounts: password reset
\* The instants at which reset requests arrive: two consecutive seconds, and
\* the last second of validity of a reset token issued at either.
ResetInstants ==
  {1, 2, 1 + minutes(PASSWORD_RESET_TOKEN_EXPIRE_MINUTES),
   2 + minutes(PASSWORD_RESET_TOKEN_EXPIRE_MINUTES)}

\* The addresses of the reset requests, the tokens and the passwords of the
\* confirmations.  secrets.token_urlsafe(32) returns a value it has not
\* returned before: the n-th value is n.
ResetEmails == {Email(u) : u \in Usernames} \cup {"nobody@x.org"}
ResetTokens == 1..MaxResets
NewPasswords == {"New-pass1"}

\* get_user_by_email
get_user_by_email(email) == {u \in DOMAIN users : users[u].email = email}

\* POST /reset-password
request_password_reset(email) ==
  /\ ev.pc = "idle"
  /\ Len(issued) < MaxResets
  /\ IF get_user_by_email(email) = {}
       THEN /\ ev' = Reply("reset", "none", email, 200, "link will be sent", NoToken)
            /\ UNCHANGED <<users, issued>>
       ELSE LET u == CHOOSE x \in get_user_by_email(email) : TRUE
                reset_token == Len(issued) + 1
            IN /\ users' = [users EXCEPT
                    ![u].reset_token = reset_token,
                    ![u].reset_token_expires =
                       now + minutes(PASSWORD_RESET_TOKEN_EXPIRE_MINUTES)]
               /\ issued' = Append(issued, <<u, reset_token>>)
               /\ ev' = Reply("reset", u, email, 200, "link will be sent", NoToken)
  /\ UNCHANGED <<doc_vars, now>>

\* A confirmation that leaves the token in the row.
confirm_password_reset_reusable(token, new_password) ==
  /\ ev.pc = "idle"
  /\ LET found == {u \in DOMAIN users : users[u].reset_token = token}
     IN IF found = {}
          THEN /\ ev' = Reply("confirm", "none", token, 400,
                              "Invalid or expired reset token", NoToken)
               /\ UNCHANGED users
          ELSE LET u == CHOOSE x \in found : TRUE
               IN IF \/ ~Truthy(users[u].reset_token_expires)
                     \/ now > users[u].reset_token_expires
                    THEN /\ ev' = Reply("confirm", u, token, 400,
                                        "Reset token has expired", NoToken)
                         /\ UNCHANGED users
                    ELSE /\ ev' = Reply("confirm", u, token, 200,
                                        "Password has been reset successfully", NoToken)
                         /\ users' = [users EXCEPT
                              ![u].hashed_password = get_password_hash(new_password)]
  /\ UNCHANGED <<doc_vars, now, issued>>

\* POST /reset-password-confirm: the row holding the token is looked up; no
\* row, or a row whose token has expired, is a 400 that commits nothing;
\* otherwise the password is replaced and the token cleared.
confirm_password_reset(token, new_password) ==
  /\ ev.pc = "idle"
  /\ LET found == {u \in DOMAIN users : users[u].reset_token = token}
     IN IF found = {}
          THEN /\ ev' = Reply("confirm", "none", token, 400,
                              "Invalid or expired reset token", NoToken)
               /\ UNCHANGED users
          ELSE LET u == CHOOSE x \in found : TRUE
               IN IF \/ ~Truthy(users[u].reset_token_expires)
                     \/ now > users[u].reset_token_expires
                    THEN /\ ev' = Reply("confirm", u, token, 400,
                                        "Reset token has expired", NoToken)
                         /\ UNCHANGED users
                    ELSE /\ ev' = Reply("confirm", u, token, 200,
                                        "Password has been reset successfully", NoToken)
                         /\ users' = [users EXCEPT
                              ![u].hashed_password = get_password_hash(new_password),
                              ![u].reset_token = NoReset,
                              ![u].reset_token_expires = NoTime]
  /\ UNCHANGED <<doc_vars, now, issued>>

\* Two accounts are registered and no reset has been requested.
InitReset ==
  /\ users = [u \in Usernames |-> DBUser(u)]
  /\ issued = <<>>
  /\ now = 1
  /\ ev = Idle
  /\ documents = [n \in Names |-> Absent]
  /\ chroma_db = [t \in Times |-> {}]
  /\ chatbot = NoObj
  /\ tasks = EmptyBag
  /\ anyFailed = FALSE
  /\ okAdds = {}
  /\ emptied = FALSE
  /\ cli = CliOff

NextReset ==
  \/ \E email \in ResetEmails : request_password_reset(email)
  \/ \E token \in ResetTokens : \E p \in NewPasswords : confirm_password_reset(token, p)
  \/ Return
  \/ Sleep(ResetInstants)

SpecReset == InitReset /\ [][NextReset]_vars

\* ------------------------------------------------ the command-line program
\* The (filename, bytes) pairs of the files given to "upload <file_path>".
CliInputs == Names \X {"text", "%PDF"}

\* One file in setup_vectorstore: PyPDFLoader raises on a file that is no PDF
\* and the file is skipped; TextLoader takes a .txt file as it is.
CliLoadFile(n, c) ==
  IF EndsWithPdf(n) /\ Header(c) # "%PDF"
    THEN {}
    ELSE {[source |-> n, page_content |-> c]}

\* text_splitter.split_documents: the chunks keep the metadata of their
\* document.
split_documents(docs) ==
  UNION {{[source |-> d.source, text |-> ch] : ch \in split_text(d.page_content)} :
           d \in docs}

\* setup_vectorstore on the object s: with nothing loaded it returns and
\* leaves self.vectorstore as it is; otherwise Chroma.from_documents adds the
\* chunks to the default collection under "db" and self.vectorstore becomes a
\* new Chroma object (objects are numbered in the order they are made).
setup_vectorstore(s) ==
  LET docs == UNION {CliLoadFile(n, s.documents[n]) : n \in listdir(s.documents)}
  IN IF docs = {}
       THEN s
       ELSE [s EXCEPT !.db = @ \cup split_documents(docs), !.vectorstore = @ + 1]

\* setup_chain on the object s: a new memory, and a chain whose retriever is
\* made from the vector store the object holds now.
setup_chain(s) ==
  [s EXCEPT !.chain = [retriever |-> s.vectorstore, memory |-> <<>>]]

\* DocumentChatbot() over directory d with an empty "db".  Without a vector
\* store setup_chain raises AttributeError and main ends.
CliNew(d) ==
  setup_chain(setup_vectorstore([CliOff EXCEPT !.documents = d, !.running = TRUE]))

InitCli ==
  /\ cli \in {CliNew(d) : d \in {x \in [Names -> {"text", "%PDF", Absent}] :
                                    CliNew(x).vectorstore > 0}}
  /\ documents = [n \in Names |-> Absent]
  /\ chroma_db = [t \in Times |-> {}]
  /\ now = 0
  /\ chatbot = NoObj
  /\ ev = Idle
  /\ tasks = EmptyBag
  /\ anyFailed = FALSE
  /\ okAdds = {}
  /\ emptied = FALSE
  /\ users = NoUsers
  /\ issued = <<>>

\* "upload <file_path>": upload_document copies the file into the directory
\* and calls setup_vectorstore; an exception of the embedding call is caught
\* and False is returned.  setup_chain is not called.
cli_upload_document(n, c) ==
  /\ cli.running
  /\ cli.vectorstore < MaxBuilds
  /\ LET copied == [cli EXCEPT !.documents[n] = c]
     IN \/ cli' = setup_vectorstore(copied)
        \/ cli' = copied
  /\ UNCHANGED api_vars

\* Any other input line: chatbot.chat(user_input) runs the chain, which saves
\* the turn in its memory; an exception of the call leaves main.
cli_chat(q) ==
  /\ cli.running
  /\ \/ /\ Len(cli.chain.memory) < MaxTurns
        /\ cli' = [cli EXCEPT !.chain.memory = Append(@, q)]
     \/ cli' = [cli EXCEPT !.running = FALSE]
  /\ UNCHANGED api_vars

NextCli ==
  \/ \E u \in CliInputs : cli_upload_document(u[1], u[2])
  \/ \E q \in Queries : cli_chat(q)

SpecCli == InitCli /\ [][NextCli]_vars

TypeOK ==
  /\ documents \in [Names -> Contents \cup {Absent}]
  /\ now \in Times
  /\ ev.pc \in {"idle", "respond", "ctor_load", "answer"} \cup RebuildPcs
  /\ BagCardinality(tasks) <= MaxTasks


\* ------------------------------------------------------------- properties
\* No task runs and the event loop is between requests or has just answered.
Quiescent == tasks = EmptyBag /\ ev.pc \in {"idle", "respond"}

\* The number of rebuilds that have read the directory and have not finished.
RebuildCount ==
  (IF ev.pc \in RebuildPcs THEN 1 ELSE 0)
    + BagCardinality([r \in Rebuilding |-> CopiesIn(r, tasks)])

\* The chunks file n contributes to a rebuild of directory dir.
ChunksOfFile(n, dir) ==
  IF dir[n] = Absent THEN {} ELSE process_documents(LoadFile(n, dir[n]))

ChatResponded == ev.op = "chat" /\ ev.pc = "respond"

DeleteResponded == ev.op = "delete" /\ ev.pc = "respond"

\* C1: a rebuild that fails leaves the binding as it was before the rebuild
\* started; here for the rebuild a remove triggers: when delete_document has
\* removed a file and its rebuild raised, the binding that was active when
\* the request arrived (with its memory) is still the active one.
C1_FailedRebuildKeepsBinding ==
  (DeleteResponded /\ ev.removed # NoName /\ ev.status = 500) => chatbot = ev.before

\* C2: a query that arrives while no binding is active is answered with the
\* not-ready condition (400), never with 500 and never with an answer.
C2_UnboundQueryNotReady ==
  (ChatResponded /\ ev.unbound) => ev.status = 400

\* C3: at most one rebuild is in progress at any time, and a handler writes
\* the document directory only while no background rebuild is in progress.
C3_RebuildsSerialized ==
  /\ [](RebuildCount <= 1)
  /\ [][(documents' # documents /\ ev.pc = "idle") => Rebuilding = {}]_vars

\* C4: no answer call executes while a rebuild is in flight.
C4_NoAnswerDuringRebuild ==
  (ChatResponded /\ ev.status = 200) => ~ev.inflight

\* C5: once every rebuild has completed, and none has failed, the index of
\* the active binding holds exactly the chunks of the files in the directory.
C5_FinalIndexMatchesDirectory ==
  (Quiescent /\ ~anyFailed /\ chatbot # NoObj) => ActiveIndex = TextsOf(documents)

\* C6: once the uploads have been processed, none of the rebuilds having
\* failed, the index the active chain retrieves from holds the chunks of every
\* uploaded file (of docA and of docB after add(docA), add(docB)).
C6_AddsAccumulate ==
  (Quiescent /\ ~anyFailed /\ chatbot # NoObj) =>
     \A n \in okAdds : ChunksOfFile(n, documents) \subseteq ActiveIndex

\* Both files have been uploaded and processed, each contributes a chunk, and
\* the active index holds both.
C6_Witness ==
  /\ Quiescent /\ ~anyFailed /\ chatbot # NoObj
  /\ okAdds = Names
  /\ \A n \in Names : ChunksOfFile(n, documents) # {}
  /\ \A n \in Names : ChunksOfFile(n, documents) \subseteq ActiveIndex

\* C7: after remove(docA) has completed, having removed docA and with other
\* documents remaining, the index of the active binding holds no chunk derived
\* from docA.
C7_RemovedNotIndexed ==
  (DeleteResponded /\ ev.status = 200 /\ ev.removed = ev.target
     /\ listdir(documents) # {}) =>
       \A c \in ActiveIndex : c.source # ev.target

\* C8: remove(document_id) deletes exactly the file document_id identifies
\* and nothing when there is no such file.
C8_DeletesIdentified ==
  [][(ev.pc = "idle" /\ ev'.op = "delete") =>
       documents' = [documents EXCEPT ![ev'.target] = Absent]]_vars

\* C9: a remove of the last file triggers no rebuild and leaves the chain
\* unbound, a remove that leaves files triggers a rebuild, and after a remove
\* of the last file every query is answered not-ready (400) until the
\* processing of a later upload has succeeded.
C9_UnboundAfterLastRemove ==
  /\ [](ChatResponded /\ emptied => ev.status = 400)
  /\ [][(ev.pc = "idle" /\ ev'.op = "delete" /\ documents' # documents) =>
          IF listdir(documents') = {}
            THEN chatbot' = NoObj /\ ev'.pc = "respond"
            ELSE ev'.pc = "ctor_load"]_vars

\* The step in which the chain is called for a chat request and the request
\* is answered with status st.
AnswerStep(st) ==
  /\ ev.pc \in {"idle", "answer"}
  /\ ev'.op = "chat" /\ ev'.pc = "respond" /\ ev'.status = st

\* C11: an answer call that fails (the chain raises, the request is answered
\* 500) leaves the binding and its conversation memory exactly as they were
\* before the call.
C11_FailedAnswerKeepsMemory ==
  [][AnswerStep(500) => chatbot' = chatbot]_vars

\* A call has failed on a binding that holds a turn, and the turn is there.
C11_Witness ==
  /\ ChatResponded /\ ev.status = 500 /\ ~ev.unbound
  /\ Len(chatbot.memory) = 1

\* C12: each successful answer call appends exactly its own turn at the end
\* of the history and changes no earlier turn, so after n successful calls the
\* history holds the n turns in call order.
C12_AnswerAppendsTurn ==
  [][AnswerStep(200) => chatbot'.memory = Append(chatbot.memory, ev'.query)]_vars

\* Two calls have succeeded, q2 then q1, and the history holds them in that
\* order.
C12_Witness ==
  /\ ChatResponded /\ ev.status = 200 /\ ev.query = "q1"
  /\ chatbot.memory = <<"q2", "q1">>

\* C13: only a successful rebuild replaces the recorded turns of the active
\* binding (by an empty history); in particular a remove whose rebuild failed
\* leaves the turns that were recorded when the request arrived.
C13_MemoryOutlivesFailedRebuild ==
  (DeleteResponded /\ ev.removed # NoName /\ ev.status = 500) =>
     chatbot.memory = ev.before.memory

\* C14: no index is built from an empty chunk set, and a rebuild whose
\* loading succeeded but whose chunking yields no chunk aborts and leaves the
\* prior binding active.
C14_EmptyChunkSetKeepsBinding ==
  /\ chatbot # NoObj => ActiveIndex # {}
  /\ (DeleteResponded /\ ev.removed # NoName
        /\ load_documents(documents) # {} /\ TextsOf(documents) = {}) =>
       chatbot = ev.before

\* The batches that abort in this step.
Aborting == {r \in BagToSet(tasks') : r.pc = "raised" /\ r \notin BagToSet(tasks)}

\* File n of the directory yields a document when DocumentChatbot loads it.
Loadable(n) == documents[n] # Absent /\ LoadFile(n, documents[n]) # {}

\* C15: a batch aborts only when it has tried every file of its listing and
\* none yielded a document: it never aborts after it has loaded a document or
\* while a loadable file of its listing is still to be loaded.
C15_BatchSurvivesFileFailure ==
  [][\A r \in Aborting :
        r.docs = {} /\ ~\E n \in r.listing : Loadable(n)]_vars

\* C16: no loaded document comes from a file whose extension is not one of
\* .txt, .pdf, .docx, .csv.
C16_UnsupportedExtensionSkipped ==
  \A r \in BagToSet(tasks) : r.pc \in {"files", "done"} =>
     \A d \in r.docs : Extension(d.source) \in Loaders

\* C17: the PDF extraction routine is invoked only on files whose first four
\* bytes are %PDF.
C17_HeaderCheckedBeforeExtraction ==
  \A r \in BagToSet(tasks) : r.pc \in {"files", "done"} =>
     \A x \in r.extracted : Header(x[2]) = "%PDF"

\* C18: every index build persists its records under a fresh collection
\* identifier: a step that adds records to chroma_db adds them to a collection
\* that held none.
C18_FreshCollectionPerBuild ==
  [][chroma_db' # chroma_db => chroma_db[now] = EmptyBag]_vars

\* C19: however often an unchanged document set is rebuilt, the index of the
\* active binding holds each chunk of the documents exactly once.
C19_RebuildIdempotent ==
  chatbot # NoObj => chroma_db[chatbot.retriever] = SetToBag(TextsOf(documents))

\* C20: a stored document changes or disappears only in the step in which
\* delete_document removes it.
C20_DocumentsOnlyRemovedByDelete ==
  [][\A n \in Names :
       (documents[n] # Absent /\ documents'[n] # documents[n]) =>
          (ev.pc = "idle" /\ ev'.op = "delete" /\ ev'.removed = n
             /\ documents'[n] = Absent)]_vars

\* C10: the retriever of the chain is made from the vector store the most
\* recent successful index build produced: a rebuild of the index replaces
\* the chain as well.  Stated for the object of the command-line program.
C10_ChainBoundToLatestIndex ==
  cli.running => cli.chain.retriever = cli.vectorstore

\* The text file n of the directory holds for its loader.
TextIn(n) == IF EndsWithPdf(n) THEN PdfText(documents[n]) ELSE documents[n]

\* C21: no blank record reaches the index: a file (text or PDF) that holds
\* no non-blank text contributes no chunk to the chunks handed to
\* create_vector_store, and every chunk handed over and every record of a
\* collection has non-blank text.
C21_NoBlankRecord ==
  /\ \A r \in BagToSet(tasks) : \A ch \in r.texts :
       /\ ~IsBlank(ch.text)
       /\ ~IsBlank(TextIn(ch.source))
  /\ \A t \in Times : \A rec \in chroma_db[t] : ~IsBlank(rec.text)

C21_Witness ==
  /\ documents["a.txt"] = "blank"
  /\ documents["b.pdf"] = "%PDF blank"
  /\ chatbot # NoObj
  /\ ActiveIndex = {[source |-> "c.md", text |-> "text"]}

\* The background task r of an upload fails in this step: it ends and its
\* file, present until now, is removed by its cleanup.
UploadFails(r) ==
  /\ r \in BagToSet(tasks)
  /\ tasks' = Drop(r)
  /\ documents[r.file] # Absent
  /\ documents'[r.file] = Absent

\* C22: when the processing an upload started fails, the file of that upload
\* is removed from the directory and the binding that is active afterwards
\* indexes no content of the removed file.
C22_FailedUploadLeavesNoTrace ==
  [][\A r \in BagToSet(tasks) :
       UploadFails(r) => \A rec \in ActiveIndex' : rec.source # r.file]_vars

\* The upload handler answers in this step.
UploadAnswered == ev.op = "upload" /\ ev.pc = "read" /\ ev'.pc = "respond"

\* C23: an upload of more than 50 MB is answered 413 and no step of its
\* handler changes the directory, the binding or the queued rebuilds; an
\* upload of exactly 50 MB (or less) is answered 200 with its file written
\* and its rebuild queued.
C23_UploadSizeLimit ==
  [][/\ (ev.op = "upload" /\ ev.size > MaxUploadBytes) =>
          /\ UNCHANGED <<documents, chatbot, tasks, chroma_db>>
          /\ UploadAnswered => ev'.status = 413
     /\ (UploadAnswered /\ ev.size <= MaxUploadBytes) =>
          /\ ev'.status = 200
          /\ documents'[ev.file] = ev.content
          /\ tasks' = tasks (+) SetToBag({NewTask(ev.file)})]_vars

\* An oversized body is refused after an earlier upload was accepted.
C23_Witness ==
  /\ ev.op = "upload" /\ ev.pc = "respond"
  /\ ev.size = MaxUploadBytes + 1 /\ ev.file_size = ev.size /\ ev.status = 413
  /\ BagCardinality(tasks) = 1

\* C24: a delete request that removes nothing is answered 404 ("Document not
\* found") and leaves the global chatbot as it was.
C24_EmptyDeleteNotFound ==
  (DeleteResponded /\ ev.removed = NoName) => (ev.status = 404 /\ chatbot = ev.before)

\* A login request for u is handled in this step.
LoginStep(u) == ev.pc = "idle" /\ ev'.op = "login" /\ ev'.username = u

\* The account of u has five failures and the cooldown since the last one
\* has not elapsed.
LockedOut(u) ==
  /\ users[u].failed_login_attempts = MAX_LOGIN_ATTEMPTS
  /\ now < users[u].last_failed_login + minutes(LOGIN_COOLDOWN_MINUTES)

\* C25: failed_login_attempts never exceeds MAX_LOGIN_ATTEMPTS; a login
\* attempt on an account that is locked out is answered "Account locked"
\* whatever the password and changes nothing; a successful login resets the
\* counter to 0.
C25_LoginLockout ==
  [][\A u \in DOMAIN users :
       /\ users'[u].failed_login_attempts <= MAX_LOGIN_ATTEMPTS
       /\ (LoginStep(u) /\ LockedOut(u)) =>
            (ev'.status = 403 /\ ev'.detail = "Account locked" /\ users' = users)
       /\ (LoginStep(u) /\ ev'.status = 200) =>
            users'[u].failed_login_attempts = 0]_vars

\* The correct password has just been refused on a locked account, one second
\* before the cooldown ends.
C25_Witness ==
  /\ ev.op = "login" /\ ev.pc = "respond" /\ ev.status = 403
  /\ ev.given = Password("alice")
  /\ users["alice"].failed_login_attempts = MAX_LOGIN_ATTEMPTS
  /\ now = users["alice"].last_failed_login + minutes(LOGIN_COOLDOWN_MINUTES) - 1

\* A refresh request is handled in this step.
RefreshStep == ev.pc = "idle" /\ ev'.op = "refresh"

\* Login or refresh hands out a refresh token in this step.
IssueStep == ev.pc = "idle" /\ ev'.op \in {"login", "refresh"} /\ ev'.status = 200

\* C26: the stored refresh token of a user, the only one /refresh-token
\* accepts for that user, is always the one most recently issued to that user
\* by login or refresh; after a successful refresh the token that was
\* presented is no longer the accepted one; a refused refresh is answered
\* "Invalid refresh token" and changes no stored token.
C26_RefreshTokenRotation ==
  [][/\ \A u \in DOMAIN users :
          users'[u].refresh_token # users[u].refresh_token =>
            (IssueStep /\ ev'.username = u)
     /\ IssueStep => users'[ev'.username].refresh_token = ev'.token
     /\ (RefreshStep /\ ev'.status = 200) =>
          users'[ev'.username].refresh_token # ev'.given
     /\ (RefreshStep /\ ev'.status # 200) =>
          (ev'.detail = "Invalid refresh token" /\ users' = users)]_vars

\* A confirmation is handled in this step.
ConfirmStep == ev.pc = "idle" /\ ev'.op = "confirm"

\* The reset tokens issued to u, in the order of issue.
IssuedTo(u) == SelectSeq(issued, LAMBDA e : e[1] = u)

\* Token k is the one most recently issued to u.
MostRecent(u, k) ==
  IssuedTo(u) # <<>> /\ IssuedTo(u)[Len(IssuedTo(u))][2] = k

\* C27: a confirmation succeeds only with the reset token most recently
\* issued to some user and not after that token's expiry; after a successful
\* confirmation no row holds the token, so presenting it again is refused; a
\* refused confirmation leaves every row (password and reset token) as it
\* was.
C27_ResetTokenSingleUse ==
  [][/\ (ConfirmStep /\ ev'.status = 200) =>
          /\ \E u \in DOMAIN users :
               /\ MostRecent(u, ev'.given)
               /\ ev'.username = u
               /\ now <= users[u].reset_token_expires
          /\ \A u \in DOMAIN users : users'[u].reset_token # ev'.given
     /\ (ConfirmStep /\ ev'.status # 200) => users' = users
     /\ (ConfirmStep /\ \A u \in DOMAIN users : users[u].reset_token # ev'.given) =>
          ev'.status = 400]_vars

\* Token 1, issued to alice and used by her to set a new password, is
\* presented again and refused, while bob's token 2 is still pending.
C27_Witness ==
  /\ ev.op = "confirm" /\ ev.pc = "respond" /\ ev.status = 400 /\ ev.given = 1
  /\ issued = << <<"alice", 1>>, <<"bob", 2>> >>
  /\ users["alice"].hashed_password = get_password_hash("New-pass1")
  /\ users["alice"].reset_token = NoReset
  /\ users["bob"].reset_token = 2

====
